---- MODULE Spec2Model ----
(***************************************************************************)
(* Annotation progress and persistence of the Facebook claim annotation    *)
(* interface: the Streamlit session of annotation_interface/app.py (cursor,*)
(* temporary annotations, display defaults), its two storage back ends     *)
(* (one MongoDB collection and one local JSONL file per annotator), and    *)
(* the GitHub JSONL storage of annotation_interface/github_storage.py.     *)
(*                                                                         *)
(* Conventions.  Python None, a missing dict key and a missing DataFrame   *)
(* column are all the string "None".  f"{a}_{b}" is the pair <<a, b>>.     *)
(* A dict is a sequence of entries with distinct keys, in insertion order. *)
(***************************************************************************)
EXTENDS Integers, Sequences, FiniteSets, TLC

None == "None"

(***************************************************************************)
(* Bounds of the model.                                                    *)
(***************************************************************************)
NumItems == 3        \* rows of the loaded dataset
MaxSessions == 2     \* browser sessions (process restarts) in one behaviour
MaxAppends == 2      \* calls of append_to_jsonl_file per writer
MaxLines == 3        \* lines save_annotation appends to one local file

(***************************************************************************)
(* config.py                                                               *)
(***************************************************************************)
VALID_ANNOTATORS ==
    {"annotator_01", "annotator_02", "annotator_03", "annotator_04",
     "annotator_05", "annotator_06", "annotator_07"}

StorageTypes == {"mongodb", "local"}

\* What is typed into the "Enter your annotator ID" box.
LoginInputs == {"", "annotator_01", "annotator_99"}

\* The annotators whose storage partitions the model keeps.
Annotators == {"annotator_01", "annotator_02"}

(***************************************************************************)
(* Python helpers.                                                         *)
(***************************************************************************)
\* a or b
Or(a, b) == IF a # None /\ a # "" THEN a ELSE b

Range(s) == {s[i] : i \in DOMAIN s}

RECURSIVE SetToSeq(_)
SetToSeq(S) ==
    IF S = {} THEN << >>
    ELSE LET x == CHOOSE y \in S : TRUE IN <<x>> \o SetToSeq(S \ {x})

(***************************************************************************)
(* load_dataset: the DataFrame after the seeded shuffle.  Row k carries    *)
(* the id assigned before the shuffle, so ids are a fixed permutation of   *)
(* the positions.                                                          *)
(***************************************************************************)
ItemNames == <<"item_0", "item_1", "item_2", "item_3">>
PostIdNames == <<"p1", "p2", "p3", "p4">>
AltPostIdNames == <<"q1", "q2", "q3", "q4">>
TextNames == <<"text_0", "text_1", "text_2", "text_3">>
ImageNames == <<"img_0.jpg", "img_1.jpg", "img_2.jpg", "img_3.jpg">>

\* Which of the optional key columns the raw records carry.  The records of
\* one dataset file carry the same columns, so a DataFrame cell is never NaN.
KeyShapes == {"none", "postId", "post_id", "both"}

\* df.sample(frac=1, random_state=42): a fixed permutation of the rows.
ShuffledSource(k) == ((k + 1) % NumItems) + 1

Row(k, shape) ==
    LET src == ShuffledSource(k) IN
    [id       |-> ItemNames[src],
     postId   |-> IF shape \in {"postId", "both"} THEN PostIdNames[src] ELSE None,
     post_id  |-> IF shape = "post_id" THEN PostIdNames[src]
                  ELSE IF shape = "both" THEN AltPostIdNames[src] ELSE None,
     text     |-> TextNames[src],
     image_id |-> ImageNames[src]]

Datasets ==
    {[k \in 1..NumItems |-> Row(k - 1, shape)] : shape \in KeyShapes}

VARIABLES
    STORAGE_TYPE,            \* config.STORAGE_TYPE of the running process
    dataset,                 \* the loaded, shuffled DataFrame (sequence of rows)
    annotator_id,            \* value of the login text input
    temp_annotations,        \* st.session_state.temp_annotations
    current_index,           \* st.session_state.current_index
    submitted_annotations,   \* st.session_state.submitted_annotations
    display_claim_status,    \* st.session_state.display_claim_status
    display_checkworthiness, \* st.session_state.display_checkworthiness
    mongo,                   \* annotator -> set of documents of the collection
    jsonl,                   \* annotator -> lines of <annotator>_annotations.jsonl
    sessions,                \* sessions started so far
    last,                    \* history: the latest step and what it returned
    gh_file,                 \* the annotator's JSONL file in the GitHub repository
    gh_pc,                   \* writer -> where it is in append_to_jsonl_file
    gh_content,              \* writer -> updated_content it is about to upload
    gh_sha,                  \* writer -> sha it puts into the request, if any
    gh_round,                \* writer -> appends it has started
    gh_acked,                \* history: lines of the appends that returned True
    gh_read_failed,          \* history: some GET of a writer has failed so far
    gh_put                   \* history: writer -> PUTs of its latest append

app_vars == <<STORAGE_TYPE, dataset, annotator_id, temp_annotations, current_index,
              submitted_annotations, display_claim_status, display_checkworthiness,
              mongo, jsonl, sessions, last>>

gh_vars == <<gh_file, gh_pc, gh_content, gh_sha, gh_round, gh_acked, gh_read_failed,
             gh_put>>

vars == <<app_vars, gh_vars>>

session_vars == <<annotator_id, temp_annotations, current_index,
                  submitted_annotations, display_claim_status,
                  display_checkworthiness>>

storage_vars == <<mongo, jsonl>>

(***************************************************************************)
(* Key resolution.                                                         *)
(***************************************************************************)
\* main, "Next": current_item.get('postId') or .get('post_id') or .get('id') or id
\* (the same chain is in save_annotation and update_annotation).
OriginalPostId(item) ==
    Or(item.postId, Or(item.post_id, Or(item.id, item.id)))

\* get_next_unannotated_item: row.get('post_id') or row.get('postId') or row.get('id')
ItemPostId(row) ==
    Or(row.post_id, Or(row.postId, row.id))

create_annotation_id(a, item_id) == <<a, item_id>>

(***************************************************************************)
(* The two-question form.                                                  *)
(***************************************************************************)
claim_options == <<"Claim", "No Claim">>
checkworthy_options == <<"Check-worthy", "Not Check-worthy">>

\* What the two radios return in one run of the script: the second radio is
\* drawn only when the first returns "Claim", and checkworthiness stays None
\* otherwise.
FormAnswers ==
    {<<"Claim", cw>> : cw \in Range(checkworthy_options)} \cup {<<"No Claim", None>>}

\* AnnotationOfSwapped: the condition of the conditional expression inverted.
AnnotationOfSwapped(claim_status, checkworthiness) ==
    [claim_status    |-> claim_status,
     checkworthiness |-> IF claim_status # "Claim" THEN checkworthiness ELSE None]

\* main, "Next": the annotation dict.
AnnotationOf(claim_status, checkworthiness) ==
    [claim_status    |-> claim_status,
     checkworthiness |-> IF claim_status = "Claim" THEN checkworthiness ELSE None]

(***************************************************************************)
(* st.session_state.temp_annotations, a dict keyed by the item's id.       *)
(***************************************************************************)
TempKeys(temp) == {temp[i].item_id : i \in DOMAIN temp}

TempGet(temp, item_id) ==
    temp[CHOOSE i \in DOMAIN temp : temp[i].item_id = item_id]

\* TempPutAppend: every write adds an entry.
TempPutAppend(temp, entry) == Append(temp, entry)

\* temp_annotations[key] = entry
TempPut(temp, entry) ==
    IF entry.item_id \in TempKeys(temp)
    THEN [i \in DOMAIN temp |->
             IF temp[i].item_id = entry.item_id THEN entry ELSE temp[i]]
    ELSE Append(temp, entry)

\* The entry "Next" stores for current_item.
TempEntry(a, item, annotation) ==
    [annotator_id     |-> a,
     item_id          |-> item.id,
     original_post_id |-> OriginalPostId(item),
     text             |-> item.text,
     image_id         |-> item.image_id,
     annotation       |-> annotation]

(***************************************************************************)
(* One run of main() down to the form: which page is drawn and what the    *)
(* radios are pre-selected to.                                             *)
(***************************************************************************)
\* LoggedInNonEmpty: the id is not looked up in VALID_ANNOTATORS.
LoggedInNonEmpty(a) == a # ""

LoggedIn(a) == a # "" /\ a \in VALID_ANNOTATORS

\* assigned_items_reversed: the rows in the opposite order.
assigned_items_reversed ==
    [i \in DOMAIN dataset |-> dataset[Len(dataset) + 1 - i]]

\* get_annotator_items(load_dataset(annotator_id), annotator_id)
assigned_items == dataset

Complete(idx) == idx >= Len(assigned_items)

\* DisplayIgnoringTemp: the display defaults are used for every item.
DisplayIgnoringTemp(item, temp, dcs, dcw) ==
    <<"No Claim", "Check-worthy">>

\* DisplayKeepingLast: an item without an entry keeps what was displayed.
DisplayKeepingLast(item, temp, dcs, dcw) ==
    IF item.id \in TempKeys(temp)
    THEN LET temp_ann == TempGet(temp, item.id) IN
         <<temp_ann.annotation.claim_status,
           IF temp_ann.annotation.claim_status = "Claim"
           THEN temp_ann.annotation.checkworthiness
           ELSE dcw>>
    ELSE <<dcs, dcw>>

\* main: "Check if this item has a temporary annotation"; the new values of
\* display_claim_status and display_checkworthiness.
Display(item, temp, dcs, dcw) ==
    IF item.id \in TempKeys(temp)
    THEN LET temp_ann == TempGet(temp, item.id) IN
         <<temp_ann.annotation.claim_status,
           IF temp_ann.annotation.claim_status = "Claim"
           THEN temp_ann.annotation.checkworthiness
           ELSE dcw>>
    ELSE <<"No Claim", "Check-worthy">>

\* The display variables after a run of main() with the given session state.
Rerun(a, idx, temp, dcs, dcw) ==
    IF LoggedIn(a) /\ ~Complete(idx)
    THEN Display(assigned_items[idx + 1], temp, dcs, dcw)
    ELSE <<dcs, dcw>>

\* index= of the two radios.
claim_index == IF display_claim_status = "Claim" THEN 0 ELSE 1
checkworthy_index == IF display_checkworthiness = "Check-worthy" THEN 0 ELSE 1

(***************************************************************************)
(* Storage.  A MongoDB collection is a set of documents with distinct _id; *)
(* a JSONL file is the sequence of its lines.                              *)
(***************************************************************************)
\* InsertOne: the document is added beside the stored ones.
InsertOne(coll, doc) == coll \cup {doc}

\* collection.replace_one({"_id": doc._id}, doc, upsert=True)
ReplaceOneUpsert(coll, doc) ==
    {d \in coll : d._id # doc._id} \cup {doc}

\* collection.bulk_write(operations), stopped after the first k operations.
RECURSIVE BulkWrite(_, _, _)
BulkWrite(coll, operations, k) ==
    IF k = 0 \/ operations = << >> THEN coll
    ELSE BulkWrite(ReplaceOneUpsert(coll, Head(operations)), Tail(operations), k - 1)

\* save_all_temporary_annotations: the document of one temporary annotation.
MongoAnnotation(annotation_data) ==
    [_id          |-> create_annotation_id(annotation_data.annotator_id,
                                           annotation_data.item_id),
     annotator_id |-> annotation_data.annotator_id,
     post_id      |-> Or(annotation_data.original_post_id, annotation_data.item_id),
     text         |-> annotation_data.text,
     image_id     |-> annotation_data.image_id,
     label        |-> annotation_data.annotation]

\* save_all_temporary_annotations: the JSONL line of one temporary annotation.
LocalAnnotation(annotation_data) ==
    [annotator_id |-> annotation_data.annotator_id,
     post_id      |-> Or(annotation_data.original_post_id, annotation_data.item_id),
     text         |-> annotation_data.text,
     image_id     |-> annotation_data.image_id,
     label        |-> annotation_data.annotation]

Operations(temp) == [i \in DOMAIN temp |-> MongoAnnotation(temp[i])]
JsonlContent(temp) == [i \in DOMAIN temp |-> LocalAnnotation(temp[i])]

\* How a write to the primary back end can end.  "applied" is the number of
\* bulk operations the server applied before the error.
MongoErrors == {"ConnectionFailure", "PyMongoError", "Exception"}

WriteOutcomes(n) ==
    IF STORAGE_TYPE = "mongodb"
    THEN {[err |-> "none", applied |-> n]}
         \cup {[err |-> e, applied |-> 0] : e \in MongoErrors}
         \cup {[err |-> "PyMongoError", applied |-> k] : k \in 1..(n - 1)}
    ELSE {[err |-> "none", applied |-> n], [err |-> "OSError", applied |-> 0]}

\* No answer: the value of the label fields of "last" outside "Next".
NoLabel == [claim_status |-> None, checkworthiness |-> None]

\* The value of the history variable "last" when the latest step was not a
\* call with a result: op names the step, ok and raised say how a call ended,
\* err is the error the back end answered with, item and records are what a
\* read returned, local_writes counts the writes to the local file, n is the
\* size of the batch handed to a submit, label is the answer "Next" stored,
\* old the answer the entry held before (NoLabel if there was no entry), and
\* backend_calls counts the requests a call sent to the back end.
NoCall ==
    [op |-> "none", ok |-> FALSE, err |-> "none", raised |-> FALSE,
     item |-> None, records |-> << >>, local_writes |-> 0, n |-> 0,
     label |-> NoLabel, old |-> NoLabel, backend_calls |-> 0]

(***************************************************************************)
(* save_all_temporary_annotations(annotator_id): the storage it leaves and *)
(* the value it returns.  Every error of the MongoDB branch ends in        *)
(* "return False": ConnectionFailure and PyMongoError in their handlers,   *)
(* any other exception re-raised into the outer "except Exception".  The   *)
(* local file is written by the local branch only.                         *)
(***************************************************************************)
SaveAllMongo(a, temp, outcome) ==
    IF STORAGE_TYPE = "mongodb"
    THEN [mongo EXCEPT ![a] = BulkWrite(@, Operations(temp), outcome.applied)]
    ELSE mongo

SaveAllLocal(a, temp, outcome) ==
    IF STORAGE_TYPE = "local" /\ outcome.err = "none"
    THEN [jsonl EXCEPT ![a] = @ \o JsonlContent(temp)]
    ELSE jsonl

SaveAllReturn(outcome) == outcome.err = "none"

\* Number of writes to the local file made by a call in the given mode.
SaveAllLocalWrites(outcome) ==
    IF STORAGE_TYPE = "local" /\ outcome.err = "none" THEN 1 ELSE 0

\* SaveAllWithoutEmptyCheck: the batch goes to the back end as it is.
SaveAllWithoutEmptyCheck(a, temp, outcome) ==
    [ok |-> SaveAllReturn(outcome),
     mongo |-> SaveAllMongo(a, temp, outcome),
     jsonl |-> SaveAllLocal(a, temp, outcome),
     backend_calls |-> 1]

\* save_all_temporary_annotations(annotator_id) as a whole: an empty
\* temp_annotations returns False before the branch on STORAGE_TYPE.
SaveAllTemporaryAnnotations(a, temp, outcome) ==
    IF temp = << >>
    THEN [ok |-> FALSE, mongo |-> mongo, jsonl |-> jsonl, backend_calls |-> 0]
    ELSE [ok |-> SaveAllReturn(outcome),
          mongo |-> SaveAllMongo(a, temp, outcome),
          jsonl |-> SaveAllLocal(a, temp, outcome),
          backend_calls |-> 1]

(***************************************************************************)
(* Reads.                                                                  *)
(***************************************************************************)
\* collection.find({"annotator_id": annotator_id})
Find(a) == {d \in mongo[a] : d.annotator_id = a}

\* Errors a read of the primary back end can end with.
ReadOutcomes ==
    IF STORAGE_TYPE = "mongodb" THEN {"none"} \cup MongoErrors ELSE {"none"}

\* get_next_unannotated_item: annotated_items.  Any exception of the MongoDB
\* branch leaves the empty set; the local branch reads the annotator's file.
AnnotatedItems(a, err) ==
    IF STORAGE_TYPE = "mongodb"
    THEN IF err = "none" THEN {ann.post_id : ann \in Find(a)} ELSE {}
    ELSE {jsonl[a][i].post_id : i \in DOMAIN jsonl[a]} \ {None, ""}

Min(S) == CHOOSE x \in S : \A y \in S : x <= y

\* ScanByOriginalPostId: the scan resolving the key as "Next" does.
ScanByOriginalPostId(rows, all_annotated_items) ==
    LET open == {i \in DOMAIN rows : OriginalPostId(rows[i]) \notin all_annotated_items} IN
    IF open = {} THEN None ELSE rows[Min(open)].id

\* get_next_unannotated_item: the loop over assigned_items.iterrows(); the id
\* of the row returned, or None.
Scan(rows, all_annotated_items) ==
    LET open == {i \in DOMAIN rows : ItemPostId(rows[i]) \notin all_annotated_items} IN
    IF open = {} THEN None ELSE rows[Min(open)].id

\* get_next_unannotated_item(annotator_id, df)
NextUnannotatedItem(a, temp, err) ==
    LET temp_annotated_items == TempKeys(temp)
        all_annotated_items  == AnnotatedItems(a, err) \cup temp_annotated_items
    IN  Scan(assigned_items, all_annotated_items)

\* get_annotation_progress(annotator_id): the list returned.  ConnectionFailure
\* and PyMongoError leave the empty list; any other exception is re-raised.
AnnotationProgress(a, err) ==
    IF STORAGE_TYPE = "mongodb"
    THEN IF err = "none" THEN SetToSeq(Find(a)) ELSE << >>
    ELSE jsonl[a]

AnnotationProgressRaises(err) ==
    STORAGE_TYPE = "mongodb" /\ err = "Exception"

(***************************************************************************)
(* The sidebar, "Your Progress".                                           *)
(***************************************************************************)
\* get_mongodb_stats(annotator_id)["total"]
MongoStatsTotal(a) == Cardinality({d \in mongo[a] : d.annotator_id = a})

\* main: total_annotations.  stats_ok: get_mongodb_stats returned the
\* statistics; otherwise the sidebar falls back to the local count.
TotalAnnotations(a, temp, submitted, stats_ok) ==
    IF STORAGE_TYPE = "mongodb" /\ stats_ok
    THEN MongoStatsTotal(a) + Len(temp)
    ELSE Len(temp) + submitted

\* main: the figure written after "Remaining items:".
RemainingItems(a, temp, submitted, stats_ok) ==
    Len(assigned_items) - TotalAnnotations(a, temp, submitted, stats_ok)

(***************************************************************************)
(* Writes of one annotation: save_annotation and update_annotation.        *)
(***************************************************************************)
\* datetime.now().isoformat() at the calls of one behaviour.
Timestamps == {"t1", "t2"}

\* Errors a write of one annotation can end with: of the MongoDB client, or
\* of the read and the write of the local file.
StoreOutcomes ==
    IF STORAGE_TYPE = "mongodb" THEN {"none"} \cup MongoErrors ELSE {"none", "OSError"}

\* save_annotation, MongoDB branch: annotation_doc.
SaveAnnotationDoc(a, item_id, annotation, current_item, now) ==
    [_id          |-> create_annotation_id(a, item_id),
     annotator_id |-> a,
     post_id      |-> Or(OriginalPostId(current_item), item_id),
     text         |-> current_item.text,
     image_id     |-> current_item.image_id,
     label        |-> annotation,
     timestamp    |-> now]

\* save_annotation, local branch: annotation_data.
SaveAnnotationLine(a, item_id, annotation, current_item) ==
    [annotator_id |-> a,
     post_id      |-> Or(OriginalPostId(current_item), item_id),
     text         |-> current_item.text,
     image_id     |-> current_item.image_id,
     label        |-> annotation]

\* save_annotation: whether the call raises.  ConnectionFailure and
\* PyMongoError are logged and shown, and the function returns normally.
SaveAnnotationRaises(err) == err \in {"Exception", "OSError"}

\* update_annotation, MongoDB branch: updated_annotation.
UpdatedAnnotationDoc(a, item_id, new_annotation, current_item) ==
    [_id          |-> create_annotation_id(a, item_id),
     annotator_id |-> a,
     post_id      |-> Or(OriginalPostId(current_item), item_id),
     text         |-> current_item.text,
     image_id     |-> current_item.image_id,
     label        |-> new_annotation]

\* update_annotation, local branch: ann.get('post_id') or ann.get('item_id');
\* the lines the code writes have no item_id.
AnnPostId(ann) == Or(ann.post_id, None)

\* update_annotation, local branch: the indexes of the lines that match
\* current_post_id.
MatchingLines(annotations, current_item) ==
    {i \in DOMAIN annotations : AnnPostId(annotations[i]) = ItemPostId(current_item)}

\* update_annotation, local branch: the annotations written back, the first
\* matching line replaced (the loop breaks at it).
UpdateLocal(annotations, a, item_id, new_annotation, current_item) ==
    [i \in DOMAIN annotations |->
        IF /\ MatchingLines(annotations, current_item) # {}
           /\ i = Min(MatchingLines(annotations, current_item))
        THEN [annotator_id |-> a,
              post_id      |-> Or(OriginalPostId(current_item), item_id),
              text         |-> current_item.text,
              image_id     |-> current_item.image_id,
              label        |-> new_annotation]
        ELSE annotations[i]]

\* update_annotation: the value returned when the call does not raise.  The
\* MongoDB branch returns True for each of the three results of replace_one
\* and False for ConnectionFailure and PyMongoError; the local branch returns
\* "updated".
UpdateAnnotationReturn(a, current_item, err) ==
    IF STORAGE_TYPE = "mongodb"
    THEN err = "none"
    ELSE MatchingLines(jsonl[a], current_item) # {}

\* update_annotation: whether the call raises.
UpdateAnnotationRaises(err) == err \in {"Exception", "OSError"}

(***************************************************************************)
(* github_storage.py.  The file of one annotator in the repository, and    *)
(* writers (sessions, browser tabs) that append to it.  The content of the *)
(* file is the sequence of its lines; its sha is the git blob hash, a      *)
(* function of the content, modelled as the content itself.                *)
(***************************************************************************)
Writers == {"w1", "w2"}

\* No stored file; also the None that _get_file_content returns.
NoFile == [exists |-> FALSE, content |-> << >>]

\* A request without "sha".
NoSha == [given |-> FALSE, of |-> << >>]

Sha(content) == [given |-> TRUE, of |-> content]

\* No PUT sent: puts counts the PUT requests of a call of append_to_jsonl_file,
\* conflicts those that were answered with a sha mismatch.
NoPut == [puts |-> 0, conflicts |-> 0]

GitHubInit ==
    /\ gh_file = NoFile
    /\ gh_pc = [w \in Writers |-> "idle"]
    /\ gh_content = [w \in Writers |-> << >>]
    /\ gh_sha = [w \in Writers |-> NoSha]
    /\ gh_round = [w \in Writers |-> 0]
    /\ gh_acked = {}
    /\ gh_read_failed = FALSE
    /\ gh_put = [w \in Writers |-> NoPut]

\* _get_file_content: the file on a 200, None on a 404, on any other status
\* and on an exception.
GetFileContent(ok) ==
    IF ok /\ gh_file.exists THEN gh_file ELSE NoFile

\* The annotations one call appends: one line naming the writer and the call.
NewLines(w, round) == <<<<w, round>>>>

\* append_to_jsonl_file: existing_content + the new lines.
UpdatedContent(existing_file, new_lines) ==
    LET existing_content == IF existing_file.exists THEN existing_file.content ELSE << >>
    IN  existing_content \o new_lines

\* _create_or_update_file: the sha sent with the PUT, if any.
RequestSha(existing_file) ==
    IF existing_file.exists THEN Sha(existing_file.content) ELSE NoSha

\* The contents API's answer to the PUT: 200/201 when the request names the
\* sha of the stored file, or names none and no file is stored.
PutAccepted(sha) ==
    IF gh_file.exists THEN sha = Sha(gh_file.content) ELSE sha = NoSha

\* append_to_jsonl_file, up to the end of "Get existing content".
AppendGetContent(w, ok) ==
    /\ gh_pc[w] = "idle"
    /\ gh_round[w] < MaxAppends
    /\ gh_round' = [gh_round EXCEPT ![w] = @ + 1]
    /\ gh_content' = [gh_content EXCEPT
                         ![w] = UpdatedContent(GetFileContent(ok),
                                               NewLines(w, gh_round[w] + 1))]
    /\ gh_read_failed' = (gh_read_failed \/ ~ok)
    /\ gh_pc' = [gh_pc EXCEPT ![w] = "update"]
    /\ gh_put' = [gh_put EXCEPT ![w] = NoPut]
    /\ UNCHANGED <<app_vars, gh_file, gh_sha, gh_acked>>

\* _create_or_update_file, "Get existing file to get SHA".
UpdateGetSha(w, ok) ==
    /\ gh_pc[w] = "update"
    /\ gh_sha' = [gh_sha EXCEPT ![w] = RequestSha(GetFileContent(ok))]
    /\ gh_read_failed' = (gh_read_failed \/ ~ok)
    /\ gh_pc' = [gh_pc EXCEPT ![w] = "put"]
    /\ UNCHANGED <<app_vars, gh_file, gh_content, gh_round, gh_acked, gh_put>>

\* _create_or_update_file, requests.put and the value returned through
\* append_to_jsonl_file.  ~ok: the request raises and nothing is stored.
UpdatePut(w, ok) ==
    /\ gh_pc[w] = "put"
    /\ IF ok /\ PutAccepted(gh_sha[w])
       THEN /\ gh_file' = [exists |-> TRUE, content |-> gh_content[w]]
            /\ gh_acked' = gh_acked \cup Range(NewLines(w, gh_round[w]))
       ELSE UNCHANGED <<gh_file, gh_acked>>
    /\ gh_put' = [gh_put EXCEPT
                     ![w] = [puts      |-> @.puts + 1,
                             conflicts |-> IF ok /\ ~PutAccepted(gh_sha[w])
                                           THEN @.conflicts + 1 ELSE @.conflicts]]
    /\ gh_pc' = [gh_pc EXCEPT ![w] = "idle"]
    /\ UNCHANGED <<app_vars, gh_content, gh_sha, gh_round, gh_read_failed>>

NextGitHub ==
    \/ \E w \in Writers, ok \in BOOLEAN : AppendGetContent(w, ok)
    \/ \E w \in Writers, ok \in BOOLEAN : UpdateGetSha(w, ok)
    \/ \E w \in Writers, ok \in BOOLEAN : UpdatePut(w, ok)

(***************************************************************************)
(* The state machine.                                                      *)
(***************************************************************************)
Init ==
    /\ STORAGE_TYPE \in StorageTypes
    /\ dataset \in Datasets
    /\ annotator_id = ""
    /\ temp_annotations = << >>
    /\ current_index = 0
    /\ submitted_annotations = 0
    /\ display_claim_status = "No Claim"
    /\ display_checkworthiness = "Check-worthy"
    /\ mongo = [a \in Annotators |-> {}]
    /\ jsonl = [a \in Annotators |-> << >>]
    /\ sessions = 1
    /\ last = NoCall
    /\ GitHubInit

\* The display variables after the run of main() that follows a change of
\* the session state.
RerunTo(a, idx, temp) ==
    LET d == Rerun(a, idx, temp, display_claim_status, display_checkworthiness) IN
    /\ display_claim_status' = d[1]
    /\ display_checkworthiness' = d[2]

\* The annotator id box is edited.
Login(a) ==
    /\ a # annotator_id
    /\ annotator_id' = a
    /\ RerunTo(a, current_index, temp_annotations)
    /\ last' = [NoCall EXCEPT !.op = "login"]
    /\ UNCHANGED <<STORAGE_TYPE, dataset, temp_annotations, current_index,
                   submitted_annotations, mongo, jsonl, sessions, gh_vars>>

\* TempDrop: the batch without the entry of the given item.
TempDrop(temp, item_id) ==
    SelectSeq(temp, LAMBDA e : e.item_id # item_id)

\* PreviousDroppingEntry: "Previous" discards the entry of the item it leaves.
PreviousDroppingEntry ==
    /\ LoggedIn(annotator_id)
    /\ ~Complete(current_index)
    /\ current_index # 0
    /\ current_index' = current_index - 1
    /\ temp_annotations' = TempDrop(temp_annotations,
                                    assigned_items[current_index + 1].id)
    /\ RerunTo(annotator_id, current_index - 1, temp_annotations')
    /\ last' = [NoCall EXCEPT !.op = "previous"]
    /\ UNCHANGED <<STORAGE_TYPE, dataset, annotator_id,
                   submitted_annotations, mongo, jsonl, sessions, gh_vars>>

\* PreviousOnCompletionPage: "Previous" is drawn on the completion page too.
PreviousOnCompletionPage ==
    /\ LoggedIn(annotator_id)
    /\ current_index # 0
    /\ current_index' = current_index - 1
    /\ RerunTo(annotator_id, current_index - 1, temp_annotations)
    /\ last' = [NoCall EXCEPT !.op = "previous"]
    /\ UNCHANGED <<STORAGE_TYPE, dataset, annotator_id, temp_annotations,
                   submitted_annotations, mongo, jsonl, sessions, gh_vars>>

\* The "Previous" button.
PreviousButton ==
    /\ LoggedIn(annotator_id)
    /\ ~Complete(current_index)
    /\ current_index # 0
    /\ current_index' = current_index - 1
    /\ RerunTo(annotator_id, current_index - 1, temp_annotations)
    /\ last' = [NoCall EXCEPT !.op = "previous"]
    /\ UNCHANGED <<STORAGE_TYPE, dataset, annotator_id, temp_annotations,
                   submitted_annotations, mongo, jsonl, sessions, gh_vars>>

\* NextButtonSkipping: the cursor moves on by two.
NextButtonSkipping(claim_status, checkworthiness) ==
    /\ LoggedIn(annotator_id)
    /\ ~Complete(current_index)
    /\ LET current_item == assigned_items[current_index + 1]
           annotation   == AnnotationOf(claim_status, checkworthiness)
           temp         == TempPut(temp_annotations,
                                   TempEntry(annotator_id, current_item, annotation))
       IN  /\ temp_annotations' = temp
           /\ current_index' = current_index + 2
           /\ RerunTo(annotator_id, current_index + 2, temp)
           /\ last' = [NoCall EXCEPT !.op = "next", !.item = current_item.id]
    /\ UNCHANGED <<STORAGE_TYPE, dataset, annotator_id, submitted_annotations,
                   mongo, jsonl, sessions, gh_vars>>

\* The "Next" button, with the answers the two radios hold.
NextButton(claim_status, checkworthiness) ==
    /\ LoggedIn(annotator_id)
    /\ ~Complete(current_index)
    /\ LET current_item == assigned_items[current_index + 1]
           annotation   == AnnotationOf(claim_status, checkworthiness)
           temp         == TempPut(temp_annotations,
                                   TempEntry(annotator_id, current_item, annotation))
       IN  /\ temp_annotations' = temp
           /\ current_index' = current_index + 1
           /\ RerunTo(annotator_id, current_index + 1, temp)
           /\ last' = [NoCall EXCEPT
                          !.op = "next", !.item = current_item.id,
                          !.label = annotation,
                          !.old = IF current_item.id \in TempKeys(temp_annotations)
                                  THEN TempGet(temp_annotations,
                                               current_item.id).annotation
                                  ELSE NoLabel]
    /\ UNCHANGED <<STORAGE_TYPE, dataset, annotator_id, submitted_annotations,
                   mongo, jsonl, sessions, gh_vars>>

\* AfterSubmitAlwaysClears: the result of the save is not looked at.
AfterSubmitAlwaysClears(success, submitted, temp) ==
    <<submitted + Len(temp), << >>>>

\* SubmitClearsFirst: the batch is cleared before its size is added.
SubmitClearsFirst(success, submitted, temp) ==
    IF success THEN <<submitted, << >>>> ELSE <<submitted, temp>>

\* main, "Submit All Annotations": the new submitted_annotations and
\* temp_annotations, given what save_all_temporary_annotations returned.
AfterSubmit(success, submitted, temp) ==
    IF success THEN <<submitted + Len(temp), << >>>> ELSE <<submitted, temp>>

\* The "Submit All Annotations" button of the completion page.
SubmitAll(outcome) ==
    /\ LoggedIn(annotator_id)
    /\ Complete(current_index)
    /\ Len(temp_annotations) > 0
    /\ LET success == SaveAllReturn(outcome)
           after   == AfterSubmit(success, submitted_annotations, temp_annotations)
       IN  /\ mongo' = SaveAllMongo(annotator_id, temp_annotations, outcome)
           /\ jsonl' = SaveAllLocal(annotator_id, temp_annotations, outcome)
           /\ submitted_annotations' = after[1]
           /\ temp_annotations' = after[2]
           /\ RerunTo(annotator_id, current_index, after[2])
           /\ last' = [NoCall EXCEPT !.op = "submit", !.ok = success,
                                     !.err = outcome.err,
                                     !.local_writes = SaveAllLocalWrites(outcome),
                                     !.n = Len(temp_annotations)]
    /\ UNCHANGED <<STORAGE_TYPE, dataset, annotator_id, current_index, sessions, gh_vars>>

\* A call of save_all_temporary_annotations for the logged-in annotator while
\* temp_annotations is empty; outcome is what the back end would answer.
SaveAllEmpty(outcome) ==
    /\ LoggedIn(annotator_id)
    /\ temp_annotations = << >>
    /\ LET r == SaveAllTemporaryAnnotations(annotator_id, temp_annotations, outcome)
       IN  /\ mongo' = r.mongo
           /\ jsonl' = r.jsonl
           /\ last' = [NoCall EXCEPT !.op = "save_all", !.ok = r.ok,
                                     !.err = outcome.err,
                                     !.backend_calls = r.backend_calls,
                                     !.n = Len(temp_annotations)]
    /\ UNCHANGED <<STORAGE_TYPE, dataset, session_vars, sessions, gh_vars>>

\* A call of get_next_unannotated_item for the logged-in annotator.
GetNextUnannotatedItem(err) ==
    /\ LoggedIn(annotator_id)
    /\ last' = [NoCall EXCEPT !.op = "next_unannotated", !.ok = TRUE, !.err = err,
                              !.item = NextUnannotatedItem(annotator_id,
                                                           temp_annotations, err)]
    /\ UNCHANGED <<STORAGE_TYPE, dataset, session_vars, storage_vars, sessions, gh_vars>>

\* A call of get_annotation_progress for the logged-in annotator.
GetAnnotationProgress(err) ==
    /\ LoggedIn(annotator_id)
    /\ last' = [NoCall EXCEPT !.op = "progress",
                              !.ok = ~AnnotationProgressRaises(err),
                              !.raised = AnnotationProgressRaises(err),
                              !.err = err,
                              !.records = IF AnnotationProgressRaises(err) THEN << >>
                                          ELSE AnnotationProgress(annotator_id, err)]
    /\ UNCHANGED <<STORAGE_TYPE, dataset, session_vars, storage_vars, sessions, gh_vars>>

\* The page is opened afresh: a new st.session_state, the storage as it was
\* left, and the STORAGE_TYPE the process was started with.
NewSession(storage_type) ==
    /\ sessions < MaxSessions
    /\ sessions' = sessions + 1
    /\ STORAGE_TYPE' = storage_type
    /\ annotator_id' = ""
    /\ temp_annotations' = << >>
    /\ current_index' = 0
    /\ submitted_annotations' = 0
    /\ display_claim_status' = "No Claim"
    /\ display_checkworthiness' = "Check-worthy"
    /\ last' = [NoCall EXCEPT !.op = "new_session"]
    /\ UNCHANGED <<dataset, mongo, jsonl, gh_vars>>

\* A call of save_annotation for the logged-in annotator and row k of the
\* dataset.  A local file is appended to while it has fewer than MaxLines
\* lines.
SaveAnnotation(k, answer, err, now) ==
    /\ LoggedIn(annotator_id)
    /\ STORAGE_TYPE = "local" => Len(jsonl[annotator_id]) < MaxLines
    /\ LET current_item == assigned_items[k]
           item_id      == current_item.id
           annotation   == AnnotationOf(answer[1], answer[2])
       IN  /\ mongo' = IF STORAGE_TYPE = "mongodb" /\ err = "none"
                       THEN [mongo EXCEPT ![annotator_id] =
                               ReplaceOneUpsert(@, SaveAnnotationDoc(annotator_id,
                                   item_id, annotation, current_item, now))]
                       ELSE mongo
           /\ jsonl' = IF STORAGE_TYPE = "local" /\ err = "none"
                       THEN [jsonl EXCEPT ![annotator_id] =
                               Append(@, SaveAnnotationLine(annotator_id, item_id,
                                                            annotation, current_item))]
                       ELSE jsonl
           /\ last' = [NoCall EXCEPT !.op = "save", !.item = item_id,
                                     !.label = annotation, !.err = err,
                                     !.raised = SaveAnnotationRaises(err),
                                     !.ok = ~SaveAnnotationRaises(err)]
    /\ UNCHANGED <<STORAGE_TYPE, dataset, session_vars, sessions, gh_vars>>

\* A call of update_annotation for the logged-in annotator and row k of the
\* dataset.
UpdateAnnotation(k, answer, err) ==
    /\ LoggedIn(annotator_id)
    /\ LET current_item   == assigned_items[k]
           item_id        == current_item.id
           new_annotation == AnnotationOf(answer[1], answer[2])
       IN  /\ mongo' = IF STORAGE_TYPE = "mongodb" /\ err = "none"
                       THEN [mongo EXCEPT ![annotator_id] =
                               ReplaceOneUpsert(@, UpdatedAnnotationDoc(annotator_id,
                                   item_id, new_annotation, current_item))]
                       ELSE mongo
           /\ jsonl' = IF STORAGE_TYPE = "local" /\ err = "none"
                       THEN [jsonl EXCEPT ![annotator_id] =
                               UpdateLocal(@, annotator_id, item_id,
                                           new_annotation, current_item)]
                       ELSE jsonl
           /\ last' = [NoCall EXCEPT
                          !.op = "update", !.item = item_id,
                          !.label = new_annotation, !.err = err,
                          !.raised = UpdateAnnotationRaises(err),
                          !.ok = /\ ~UpdateAnnotationRaises(err)
                                 /\ UpdateAnnotationReturn(annotator_id,
                                                           current_item, err)]
    /\ UNCHANGED <<STORAGE_TYPE, dataset, session_vars, sessions, gh_vars>>

\* One session of one process.
Next ==
    \/ \E a \in LoginInputs : Login(a)
    \/ PreviousButton
    \/ \E answer \in FormAnswers : NextButton(answer[1], answer[2])
    \/ \E outcome \in WriteOutcomes(Len(temp_annotations)) : SubmitAll(outcome)
    \/ \E outcome \in WriteOutcomes(0) : SaveAllEmpty(outcome)
    \/ \E err \in ReadOutcomes : GetNextUnannotatedItem(err)
    \/ \E err \in ReadOutcomes : GetAnnotationProgress(err)

Spec == Init /\ [][Next]_vars

\* Sessions one after the other over the same storage.
NextSessions ==
    \/ Next
    \/ \E storage_type \in StorageTypes : NewSession(storage_type)

SpecSessions == Init /\ [][NextSessions]_vars

\* The batch an earlier session of annotator_01 held when it submitted: one
\* entry for every item, stored by "Next".
EarlierBatch ==
    [k \in DOMAIN dataset |->
        TempEntry("annotator_01", dataset[k], AnnotationOf("Claim", "Check-worthy"))]

\* A session opened after an earlier session of annotator_01 has submitted
\* EarlierBatch to the configured storage.
InitResumed ==
    /\ STORAGE_TYPE \in StorageTypes
    /\ dataset \in Datasets
    /\ annotator_id = ""
    /\ temp_annotations = << >>
    /\ current_index = 0
    /\ submitted_annotations = 0
    /\ display_claim_status = "No Claim"
    /\ display_checkworthiness = "Check-worthy"
    /\ mongo = [a \in Annotators |->
                  IF a = "annotator_01" /\ STORAGE_TYPE = "mongodb"
                  THEN BulkWrite({}, Operations(EarlierBatch), Len(EarlierBatch))
                  ELSE {}]
    /\ jsonl = [a \in Annotators |->
                  IF a = "annotator_01" /\ STORAGE_TYPE = "local"
                  THEN JsonlContent(EarlierBatch)
                  ELSE << >>]
    /\ sessions = 1
    /\ last = NoCall
    /\ GitHubInit

SpecResumed == InitResumed /\ [][Next]_vars

\* The answers given to the calls that write one annotation.
StoreAnswers == {<<"Claim", "Not Check-worthy">>, <<"No Claim", None>>}

\* The calls that write or read one annotator's storage outside the form.
NextStore ==
    \/ \E a \in LoginInputs : Login(a)
    \/ \E k \in 1..NumItems, answer \in StoreAnswers, err \in StoreOutcomes,
          now \in Timestamps : SaveAnnotation(k, answer, err, now)
    \/ \E k \in 1..NumItems, answer \in StoreAnswers, err \in StoreOutcomes :
          UpdateAnnotation(k, answer, err)
    \/ \E err \in ReadOutcomes : GetAnnotationProgress(err)

SpecStore == Init /\ [][NextStore]_vars

\* The database variant: a collection that is empty or holds the batch of an
\* earlier session, one dataset.
InitDatabase ==
    /\ Init \/ InitResumed
    /\ STORAGE_TYPE = "mongodb"
    /\ dataset = [k \in 1..NumItems |-> Row(k - 1, "postId")]

\* Annotating and submitting over one collection, and calls of
\* update_annotation made once the session has submitted its batch.
NextDatabase ==
    \/ \E a \in LoginInputs : Login(a)
    \/ \E answer \in FormAnswers : NextButton(answer[1], answer[2])
    \/ \E outcome \in WriteOutcomes(Len(temp_annotations)) : SubmitAll(outcome)
    \/ \E k \in 1..NumItems, answer \in StoreAnswers, err \in StoreOutcomes :
          submitted_annotations > 0 /\ UpdateAnnotation(k, answer, err)

SpecDatabase == InitDatabase /\ [][NextDatabase]_vars

\* One session in which the id box is edited between two annotators of the
\* allow-list, who are served the same dataset (get_dataset_paths).
InitTwoAnnotators ==
    /\ Init
    /\ dataset = [k \in 1..NumItems |-> Row(k - 1, "postId")]

NextTwoAnnotators ==
    \/ \E a \in Annotators \cup {""} : Login(a)
    \/ PreviousButton
    \/ \E answer \in FormAnswers : NextButton(answer[1], answer[2])
    \/ \E outcome \in WriteOutcomes(Len(temp_annotations)) : SubmitAll(outcome)

SpecTwoAnnotators == InitTwoAnnotators /\ [][NextTwoAnnotators]_vars

\* Writers of the GitHub storage alone; the session does not move.
InitGitHub ==
    /\ Init
    /\ STORAGE_TYPE = "local"
    /\ dataset = [k \in 1..NumItems |-> Row(k - 1, "postId")]

SpecGitHub == InitGitHub /\ [][NextGitHub]_vars

(***************************************************************************)
(* The claims.                                                             *)
(***************************************************************************)
LabelWellFormed(label) ==
    (label.checkworthiness # None) <=> (label.claim_status = "Claim")

\* C1: every annotation held in temp_annotations, and every record that a
\* submit has written to a collection or a local file, has a checkworthiness
\* other than None exactly when its claim_status is "Claim".
C1_CheckworthinessIffClaim ==
    /\ \A i \in DOMAIN temp_annotations :
          LabelWellFormed(temp_annotations[i].annotation)
    /\ \A a \in Annotators :
          /\ \A d \in mongo[a] : LabelWellFormed(d.label)
          /\ \A i \in DOMAIN jsonl[a] : LabelWellFormed(jsonl[a][i].label)

\* C1 witness: a submit has committed a "Claim" record with a checkworthiness
\* and a "No Claim" record without one.
C1_Witness ==
    /\ last.op = "submit" /\ last.ok
    /\ \E a \in Annotators :
          LET stored == IF STORAGE_TYPE = "mongodb"
                        THEN {d.label : d \in mongo[a]}
                        ELSE {jsonl[a][i].label : i \in DOMAIN jsonl[a]}
          IN  /\ [claim_status |-> "Claim", checkworthiness |-> "Not Check-worthy"] \in stored
              /\ [claim_status |-> "No Claim", checkworthiness |-> None] \in stored

\* C2: a submit for which save_all_temporary_annotations returns False leaves
\* temp_annotations and submitted_annotations as they were.
C2_FailedSubmitKeepsBatch ==
    [][(last'.op = "submit" /\ ~last'.ok)
          => /\ temp_annotations' = temp_annotations
             /\ submitted_annotations' = submitted_annotations]_vars

\* C2 witness: a submit has failed after the server applied part of the bulk
\* write, and the whole batch is still held.
C2_Witness ==
    /\ last.op = "submit" /\ ~last.ok /\ last.err = "PyMongoError"
    /\ Len(temp_annotations) = NumItems
    /\ mongo[annotator_id] # {}
    /\ submitted_annotations = 0

\* C3: a submit that succeeds with n entries in temp_annotations adds exactly
\* n to submitted_annotations, empties temp_annotations and leaves
\* current_index as it was.
C3_SuccessfulSubmitCountsBatch ==
    [][(last'.op = "submit" /\ last'.ok)
          => /\ submitted_annotations' = submitted_annotations + Len(temp_annotations)
             /\ last'.n = Len(temp_annotations)
             /\ temp_annotations' = << >>
             /\ current_index' = current_index]_vars

\* C3 witness: a submit of a full batch has succeeded.
C3_Witness ==
    /\ last.op = "submit" /\ last.ok /\ last.n = NumItems
    /\ submitted_annotations = NumItems
    /\ temp_annotations = << >>
    /\ current_index = NumItems

\* C4: when the batch write to MongoDB fails, the write is tried once against
\* the local file, and if the submit then reports success every record of the
\* batch is in the annotator's local file.
C4_DatabaseWriteFallsBackToLocal ==
    (last.op = "submit" /\ STORAGE_TYPE = "mongodb" /\ last.err # "none")
        => /\ last.local_writes = 1
           /\ last.ok => Range(JsonlContent(temp_annotations))
                            \subseteq Range(jsonl[annotator_id])

\* The post_ids of the annotator's local file.
LocalPostIds(a) == {jsonl[a][i].post_id : i \in DOMAIN jsonl[a]}

\* C5: when the read of MongoDB fails, get_annotation_progress returns the
\* records of the annotator's local file without raising, and
\* get_next_unannotated_item scans against the post_ids of that file.
C5_ReadFailureFallsBackToLocal ==
    /\ (last.op = "progress" /\ last.err # "none")
           => ~last.raised /\ last.records = jsonl[annotator_id]
    /\ (last.op = "next_unannotated" /\ last.err # "none")
           => last.item = Scan(assigned_items,
                               LocalPostIds(annotator_id) \cup TempKeys(temp_annotations))

\* C6: with no failed GET, every append that returned True has its lines in
\* the stored file, however the steps of the two writers interleave.
C6_NoAcknowledgedAppendLost ==
    ~gh_read_failed => gh_acked \subseteq Range(gh_file.content)

\* The row of the loaded dataset with the given id.
RowOf(item_id) ==
    dataset[CHOOSE i \in DOMAIN dataset : dataset[i].id = item_id]

\* pending: the post ids of the entries of temp_annotations.
PendingPostIds == {temp_annotations[i].original_post_id : i \in DOMAIN temp_annotations}

\* committed: the post ids the lookup of the latest scan obtained.
CommittedSeen == AnnotatedItems(annotator_id, last.err)

\* C7: get_next_unannotated_item never returns an item whose natural key
\* (postId, else post_id, else id) is a committed post id or the post id of an
\* entry of temp_annotations.
C7_NeverReturnsCoveredItem ==
    (last.op = "next_unannotated" /\ last.item # None)
        => OriginalPostId(RowOf(last.item)) \notin CommittedSeen \cup PendingPostIds

\* C8: get_next_unannotated_item returns the first row, in stored order, whose
\* natural key is neither committed nor pending, and None exactly when there
\* is no such row.
C8_ReturnsFirstUncoveredItem ==
    last.op = "next_unannotated"
        => last.item = ScanByOriginalPostId(assigned_items,
                                            CommittedSeen \cup PendingPostIds)

\* The post ids of the records committed for the annotator.
CommittedPostIds(a) ==
    IF STORAGE_TYPE = "mongodb" THEN {d.post_id : d \in Find(a)} ELSE LocalPostIds(a)

\* C9: for every item with a committed record, the key the record was
\* committed under is the key the scan compares, and after a successful read
\* the scan never returns an item for which a committed record exists.
C9_CommittedItemNeverUnannotated ==
    (last.op = "next_unannotated" /\ last.err = "none")
        => /\ \A i \in DOMAIN dataset :
                 OriginalPostId(dataset[i]) \in CommittedPostIds(annotator_id)
                    => ItemPostId(dataset[i]) = OriginalPostId(dataset[i])
           /\ last.item # None
                 => OriginalPostId(RowOf(last.item)) \notin CommittedPostIds(annotator_id)

\* C10: whenever the item on the page has an entry in temp_annotations, the
\* option the first radio is pre-selected to is the entry's claim_status, and
\* when that is "Claim" the option the second radio is pre-selected to is the
\* entry's checkworthiness.
C10_StoredAnswerPreselected ==
    (/\ LoggedIn(annotator_id)
     /\ ~Complete(current_index)
     /\ assigned_items[current_index + 1].id \in TempKeys(temp_annotations))
        => LET L == TempGet(temp_annotations,
                            assigned_items[current_index + 1].id).annotation
           IN  /\ claim_options[claim_index + 1] = L.claim_status
               /\ L.claim_status = "Claim"
                     => checkworthy_options[checkworthy_index + 1] = L.checkworthiness

\* C10 witness: back on the first item after "Next" stored Claim / Not
\* Check-worthy for it, with both radios pre-selected to the stored answer.
C10_Witness ==
    /\ LoggedIn(annotator_id)
    /\ current_index = 0
    /\ assigned_items[1].id \in TempKeys(temp_annotations)
    /\ TempGet(temp_annotations, assigned_items[1].id).annotation
          = [claim_status |-> "Claim", checkworthiness |-> "Not Check-worthy"]
    /\ claim_options[claim_index + 1] = "Claim"
    /\ checkworthy_options[checkworthy_index + 1] = "Not Check-worthy"

\* C11: whenever the item on the page has no entry in temp_annotations, the
\* first radio is pre-selected to "No Claim" and the second to "Check-worthy",
\* whatever was displayed for the items rendered before.
C11_DefaultPreselectedWithoutEntry ==
    (/\ LoggedIn(annotator_id)
     /\ ~Complete(current_index)
     /\ assigned_items[current_index + 1].id \notin TempKeys(temp_annotations))
        => /\ claim_options[claim_index + 1] = "No Claim"
           /\ checkworthy_options[checkworthy_index + 1] = "Check-worthy"

\* C11 witness: the second item is on the page and has no entry, the first
\* item was rendered with its stored Claim / Not Check-worthy and stored
\* again, and both radios are back on the defaults.
C11_Witness ==
    /\ LoggedIn(annotator_id)
    /\ current_index = 1
    /\ last.op = "next"
    /\ last.old = [claim_status |-> "Claim", checkworthiness |-> "Not Check-worthy"]
    /\ assigned_items[2].id \notin TempKeys(temp_annotations)
    /\ display_claim_status = "No Claim"
    /\ display_checkworthiness = "Check-worthy"

\* The entries of a batch stored under the given item id.
EntriesOf(temp, item_id) == {i \in DOMAIN temp : temp[i].item_id = item_id}

\* C12: when "Next" stores an answer for an item that already has an entry in
\* temp_annotations, the batch afterwards holds exactly one entry for that
\* item, its annotation is the answer just given, and every other entry is
\* the one it was.
C12_SecondWriteWins ==
    [][(last'.op = "next" /\ last'.item \in TempKeys(temp_annotations))
          => /\ Cardinality(EntriesOf(temp_annotations', last'.item)) = 1
             /\ TempGet(temp_annotations', last'.item).annotation = last'.label
             /\ Len(temp_annotations') = Len(temp_annotations)
             /\ \A i \in DOMAIN temp_annotations :
                    temp_annotations[i].item_id # last'.item
                       => temp_annotations'[i] = temp_annotations[i]]_vars

\* C12 witness: "Next" on the first item, "Next" on the second, "Previous"
\* twice and "Next" on the first item with another answer: one entry for the
\* first item, holding the second answer, beside the entry of the second.
C12_Witness ==
    /\ last.op = "next"
    /\ last.item = assigned_items[1].id
    /\ last.old # NoLabel
    /\ last.old # last.label
    /\ Len(temp_annotations) = 2
    /\ Cardinality(EntriesOf(temp_annotations, last.item)) = 1
    /\ TempGet(temp_annotations, last.item).annotation = last.label

Committed(a) ==
    IF STORAGE_TYPE = "mongodb" THEN Cardinality(mongo[a]) ELSE Len(jsonl[a])

\* C14: the cursor is moved by "Next" and "Previous" alone, so it is the net
\* number of "Next" over "Previous"; at a cursor k below the number of items
\* the pre-selection on the page is that of row k of the loaded dataset, and
\* "Next" stores its entry under the id, text and image_id of that row,
\* whatever the storage and temp_annotations hold.
C14_CursorSelectsItem ==
    /\ []((LoggedIn(annotator_id) /\ current_index < Len(dataset))
            => <<display_claim_status, display_checkworthiness>>
                  = Display(dataset[current_index + 1], temp_annotations,
                            display_claim_status, display_checkworthiness))
    /\ [][((last'.op \notin {"next", "previous"})
              => current_index' = current_index)
          /\ ((last'.op = "next")
                 => LET row   == dataset[current_index + 1]
                        entry == TempGet(temp_annotations', last'.item)
                    IN  /\ last'.item = row.id
                        /\ entry.text = row.text
                        /\ entry.image_id = row.image_id
                        /\ entry.original_post_id = OriginalPostId(row))]_vars

\* C14 witness: with records of an earlier session committed, "Next", "Next",
\* "Previous" and "Next" again have stored a second answer under the second
\* row of the dataset.
C14_Witness ==
    /\ LoggedIn(annotator_id)
    /\ Committed(annotator_id) = NumItems
    /\ last.op = "next"
    /\ last.old # NoLabel
    /\ current_index = 2
    /\ last.item = dataset[2].id
    /\ TempGet(temp_annotations, last.item).text = dataset[2].text

\* C15: save_all_temporary_annotations called with an empty temp_annotations
\* returns False without a request to the back end and leaves the storage,
\* temp_annotations and submitted_annotations as they were; the "Submit All
\* Annotations" button calls it with a batch that is not empty.
C15_EmptySubmitIsNoOp ==
    /\ []((last.op = "submit") => last.n > 0)
    /\ [][(last'.op = "save_all" /\ last'.n = 0)
             => (/\ ~last'.ok
                 /\ last'.backend_calls = 0
                 /\ mongo' = mongo
                 /\ jsonl' = jsonl
                 /\ temp_annotations' = << >>
                 /\ submitted_annotations' = submitted_annotations)]_vars

\* C15 witness: after a submit of the whole batch has emptied
\* temp_annotations, a call with a back end that would accept a write has
\* returned False.
C15_Witness ==
    /\ last.op = "save_all" /\ ~last.ok /\ last.err = "none"
    /\ last.backend_calls = 0
    /\ temp_annotations = << >>
    /\ current_index = NumItems
    /\ submitted_annotations = NumItems

\* The committed records of the annotator that carry the given label for the
\* given item: by _id in the collection, by post_id in the local file.
StoredFor(a, item_id, label) ==
    IF STORAGE_TYPE = "mongodb"
    THEN {d \in mongo[a] : d._id = create_annotation_id(a, item_id) /\ d.label = label}
    ELSE {jsonl[a][i] : i \in {j \in DOMAIN jsonl[a] :
                                  /\ jsonl[a][j].post_id = OriginalPostId(RowOf(item_id))
                                  /\ jsonl[a][j].label = label}}

\* C16: with either storage, a call of update_annotation that the back end
\* answers without an error returns True and leaves a record with the new
\* label for the item, whether or not a record for it was stored before.
C16_UpdateIsReplaceOrInsert ==
    (last.op = "update" /\ last.err = "none")
        => /\ last.ok
           /\ StoredFor(annotator_id, last.item, last.label) # {}

\* C17: the completion page is the page of every cursor at or above the
\* number of assigned items; a step taken there leaves the cursor as it is,
\* so the session stays there, and only "Submit All Annotations" changes
\* temp_annotations, submitted_annotations or the storage.
C17_CompleteIsFinal ==
    [][Complete(current_index)
          => (/\ current_index' = current_index
              /\ Complete(current_index')
              /\ (<<temp_annotations, submitted_annotations, mongo, jsonl>>'
                     # <<temp_annotations, submitted_annotations, mongo, jsonl>>)
                    => (last'.op = "submit"))]_vars

\* C17 witness: on the completion page the batch was submitted, the annotator
\* id was cleared and entered again, and the page is still the completion
\* page.
C17_Witness ==
    /\ last.op = "login"
    /\ LoggedIn(annotator_id)
    /\ Complete(current_index)
    /\ current_index = NumItems
    /\ submitted_annotations = NumItems
    /\ temp_annotations = << >>

\* The id is empty or not one of annotator_01 .. annotator_07.
NotAllowed(a) == a = "" \/ a \notin VALID_ANNOTATORS

\* What a session without a valid id must leave alone: the cursor, the batch,
\* the submitted count and the storage.
Guarded ==
    <<current_index, temp_annotations, submitted_annotations, mongo, jsonl>>

\* C18: while annotator_id is empty or not in VALID_ANNOTATORS, the only step
\* is an edit of the id, and it leaves the cursor, temp_annotations, the
\* submitted count and the storage as they were; a run of main that ends with
\* such an id reads no row of the dataset, so the pre-selection is unchanged
\* too.
C18_NoAccessWithoutValidId ==
    [][/\ NotAllowed(annotator_id)
            => (last'.op = "login" /\ Guarded' = Guarded)
       /\ NotAllowed(annotator_id')
            => (/\ Guarded' = Guarded
                /\ display_claim_status' = display_claim_status
                /\ display_checkworthiness' = display_checkworthiness)]_vars

\* C18 witness: an id outside the allow-list has been entered in a session
\* that holds an entry and stands on the second item.
C18_Witness ==
    /\ last.op = "login"
    /\ annotator_id = "annotator_99"
    /\ current_index = 1
    /\ Len(temp_annotations) = 1

\* The fields of the persisted annotation record.
LogicalFields == {"annotator_id", "post_id", "text", "image_id", "label", "timestamp"}

\* C19: every document of a collection has the fields annotator_id, post_id,
\* text, image_id, label and timestamp beside its _id, and every line of a
\* local file has exactly these six fields, whichever call wrote it.
C19_SameFieldsOnEveryPath ==
    \A a \in Annotators :
        /\ \A d \in mongo[a] : DOMAIN d = LogicalFields \cup {"_id"}
        /\ \A i \in DOMAIN jsonl[a] : DOMAIN jsonl[a][i] = LogicalFields

\* C20: with no failed GET, a call of append_to_jsonl_file whose PUT was
\* answered with a sha mismatch sends a second PUT before it returns.
C20_ConflictRetriedOnce ==
    ~gh_read_failed
        => \A w \in Writers :
              (gh_pc[w] = "idle" /\ gh_put[w].conflicts > 0) => gh_put[w].puts = 2

\* The documents of a collection stored under the given _id.
DocsOf(coll, id) == {d \in coll : d._id = id}

\* C21: a collection never holds two documents for one item.  After a
\* successful submit the documents of the items of the batch are exactly the
\* documents of the batch, whatever an earlier submit of the same batch or an
\* earlier session left there, and the other documents are untouched.  After
\* update_annotation answered without error the item has exactly one
\* document, with the new label, and a document it had before is replaced,
\* not accompanied.
C21_BulkUpsertIsIdempotent ==
    /\ [](\A a \in Annotators : \A d1, d2 \in mongo[a] : d1._id = d2._id => d1 = d2)
    /\ [][((last'.op = "submit" /\ last'.ok /\ STORAGE_TYPE = "mongodb")
              => LET a   == annotator_id
                     ids == {Operations(temp_annotations)[i]._id :
                                i \in DOMAIN temp_annotations}
                 IN  /\ {d \in mongo'[a] : d._id \in ids}
                           = Range(Operations(temp_annotations))
                     /\ {d \in mongo'[a] : d._id \notin ids}
                           = {d \in mongo[a] : d._id \notin ids})
          /\ ((last'.op = "update" /\ last'.err = "none" /\ STORAGE_TYPE = "mongodb")
                 => LET a  == annotator_id
                        id == create_annotation_id(a, last'.item)
                    IN  /\ Cardinality(DocsOf(mongo'[a], id)) = 1
                        /\ \A d \in DocsOf(mongo'[a], id) : d.label = last'.label
                        /\ Cardinality(mongo'[a])
                              = Cardinality(mongo[a])
                                  + (IF DocsOf(mongo[a], id) = {} THEN 1 ELSE 0)
                        /\ mongo'[a] \ DocsOf(mongo'[a], id)
                              = mongo[a] \ DocsOf(mongo[a], id))]_vars

\* C21 witness: with the batch of an earlier session committed, the session
\* has annotated every item again and submitted, and update_annotation has
\* then replaced the document of an item: one document per item.
C21_Witness ==
    /\ LoggedIn(annotator_id)
    /\ submitted_annotations = NumItems
    /\ last.op = "update" /\ last.ok
    /\ Cardinality(mongo[annotator_id]) = NumItems
    /\ \A d \in DocsOf(mongo[annotator_id],
                        create_annotation_id(annotator_id, last.item)) :
           d.label = last.label

\* The lines of a local file whose post_id is the natural key (postId, else
\* post_id, else id) of the given item.
LinesOf(lines, item_id) ==
    {i \in DOMAIN lines : lines[i].post_id = OriginalPostId(RowOf(item_id))}

\* C22: in local mode a call of update_annotation that ends without an I/O
\* error leaves the number and the order of the lines as they were; when the
\* file has a line under the key of the item it replaces the first such line
\* with the new label, leaves every other line as it was, later lines under
\* the same key included, and returns True; when it has none it leaves every
\* line as it was and returns False.
C22_LocalUpdateReplacesFirstMatch ==
    [][(last'.op = "update" /\ last'.err = "none" /\ STORAGE_TYPE = "local")
          => LET old == jsonl[annotator_id]
                 new == jsonl'[annotator_id]
                 M   == LinesOf(old, last'.item)
             IN  /\ Len(new) = Len(old)
                 /\ last'.ok = (M # {})
                 /\ \A i \in DOMAIN old :
                        IF M # {} /\ i = Min(M)
                        THEN /\ new[i].label = last'.label
                             /\ new[i].post_id = old[i].post_id
                        ELSE new[i] = old[i]]_vars

\* C23: every document of the collection of an annotator and every line of
\* the annotator's local file carries that annotator's id, also after the id
\* box was changed to another annotator of the allow-list while
\* temp_annotations held entries stored under the first id.
C23_PartitionHoldsOwnRecords ==
    \A a \in Annotators :
        /\ \A d \in mongo[a] : d.annotator_id = a
        /\ \A i \in DOMAIN jsonl[a] : jsonl[a][i].annotator_id = a

IsPrefix(s, t) == Len(s) <= Len(t) /\ \A i \in DOMAIN s : s[i] = t[i]

\* C24: an accepted upload of append_to_jsonl_file stores a content that
\* begins with the content stored before, also when the GET for the content
\* failed and the GET for the sha succeeded.  Stated for a writer that
\* appends alone.
C24_AppendKeepsStoredLines ==
    [][(gh_round["w2"] = 0 /\ gh_file' # gh_file)
          => IsPrefix(gh_file.content, gh_file'.content)]_vars

\* The pre-selection an item's entry alone determines: the stored answer, with
\* "Check-worthy" for the second radio when the entry is "No Claim" or there
\* is no entry.
PreselectionOf(temp, item_id) ==
    IF item_id \notin TempKeys(temp)
    THEN <<"No Claim", "Check-worthy">>
    ELSE LET L == TempGet(temp, item_id).annotation IN
         IF L.claim_status = "Claim"
         THEN <<"Claim", L.checkworthiness>>
         ELSE <<"No Claim", "Check-worthy">>

\* C25: the options the two radios are pre-selected to for the item on the
\* page are determined by that item's entry in temp_annotations alone; for an
\* entry with "No Claim" the second radio, once drawn, starts on
\* "Check-worthy" whatever was rendered before.
C25_PreselectionFromEntryOnly ==
    (LoggedIn(annotator_id) /\ ~Complete(current_index))
        => <<claim_options[claim_index + 1], checkworthy_options[checkworthy_index + 1]>>
              = PreselectionOf(temp_annotations, assigned_items[current_index + 1].id)

\* C26: on every page of a logged-in session the sidebar's total is at most
\* the number of assigned items and its "Remaining items" is not negative:
\* in local mode and in the fallback the total is temp_annotations plus
\* submitted_annotations, in MongoDB mode the documents of the annotator plus
\* temp_annotations, also in a session that annotates again items committed
\* by an earlier one.
C26_RemainingNeverNegative ==
    LoggedIn(annotator_id)
        => \A stats_ok \in BOOLEAN :
              /\ TotalAnnotations(annotator_id, temp_annotations,
                                  submitted_annotations, stats_ok)
                    <= Len(assigned_items)
              /\ RemainingItems(annotator_id, temp_annotations,
                                submitted_annotations, stats_ok) >= 0

\* C27: as long as the session has not submitted successfully, every item
\* below the cursor has an entry in temp_annotations and no item has two, so
\* on the completion page the batch holds one entry for each assigned item;
\* "Previous" moves the cursor and leaves temp_annotations, the submitted
\* count and the storage as they were.
C27_BatchCoversItemsBelowCursor ==
    /\ [](submitted_annotations = 0
            => (/\ \A i \in 1..current_index :
                      Cardinality(EntriesOf(temp_annotations, assigned_items[i].id)) = 1
                /\ Complete(current_index)
                      => Len(temp_annotations) = Len(assigned_items)))
    /\ [][(last'.op = "previous")
             => (/\ temp_annotations' = temp_annotations
                 /\ submitted_annotations' = submitted_annotations
                 /\ mongo' = mongo
                 /\ jsonl' = jsonl)]_vars

\* C27 witness: an item was answered, left with "Previous" and answered
\* again; the cursor stands on the last item and the batch holds one entry
\* for each item below it.
C27_Witness ==
    /\ LoggedIn(annotator_id)
    /\ last.op = "next"
    /\ last.old # NoLabel
    /\ current_index = NumItems - 1
    /\ submitted_annotations = 0
    /\ Len(temp_annotations) = NumItems - 1
    /\ \A i \in 1..current_index :
           Cardinality(EntriesOf(temp_annotations, assigned_items[i].id)) = 1

====
